---------------------------- MODULE Spec2Model ----------------------------
(***************************************************************************)
(* Model of raptor's search engine, src/src/raptor_search.cpp:             *)
(* sync_out, compute_simple_model, load_ibf, do_parallel,                  *)
(* run_program_single, run_program_multiple and raptor_search.             *)
(*                                                                         *)
(* Strings are sequences of one-character strings.  A query sequence is    *)
(* represented by what seqan3::views::minimiser_hash yields for it: the    *)
(* multiset of its minimiser hashes (hash |-> number of occurrences).  An  *)
(* interleaved Bloom filter is the sequence of its bins, each the set of   *)
(* hashes whose bits are set for that bin; position i holds bin i - 1.     *)
(***************************************************************************)
EXTENDS Integers, Sequences, FiniteSets, TLC

\* ------------------------------------------------------------------ bounds

\* Longest query stream of the streamed runs.
MaxRecords == 4
\* Records per chunk: the source reads (1ULL<<20)*10 per chunk (lines 132, 323);
\* the model scales the chunk down so that a stream spans several chunks.
ChunkSize == 3
\* arguments.threads ranges over 1..MaxThreads.
MaxThreads == 2
\* arguments.parts ranges over 1..MaxParts.
MaxParts == 3
\* Largest multiplicity of one minimiser hash in a drawn single-record query.
MaxMult == 2

\* The parameterisations drawn for the claims about every parameterisation:
\* kmer_size in 1..MaxKmer, window_size up to MaxWindow, pattern_size up to
\* MaxPattern, errors in 0..MaxErrors.
MaxKmer == 3

MaxWindow == 4

MaxPattern == 6

MaxErrors == 1

\* --------------------------------------------------------------- constants

\* count_size_type = uint8_t: a counter holds values modulo CountMod.
CountMod == 256

TAB == "\t"
LF == "\n"
COMMA == ","

\* The minimiser hash values of the model.
Hashes == 0 .. 3

NoThread == -1

\* size_t arithmetic is modulo SizeMod.  A size_t has 64 bits; the model's
\* integers have 32, so a size_t is held modulo 2^30 here, which is far above
\* every value the model computes without a wrap-around.
SizeMod == 1073741824

\* The threads that may write a timer: the thread that runs raptor_search and
\* the thread of the std::async that runs cereal_worker.
Orchestrator == "orchestrator"

BackgroundLoader == "cereal_worker"

\* ----------------------------------------------------------------- helpers

Min(a, b) == IF a <= b THEN a ELSE b

Max(a, b) == IF a >= b THEN a ELSE b

RECURSIVE SumOver(_, _)
\* Sum of f[x] over the finite set S.
SumOver(S, f) ==
    IF S = {} THEN 0
    ELSE LET x == CHOOSE y \in S : TRUE
         IN  f[x] + SumOver(S \ {x}, f)

\* The first n elements of s (all of s when it is shorter).
Take(s, n) == SubSeq(s, 1, Min(n, Len(s)))

\* s without its first n elements.
Drop(s, n) == SubSeq(s, Min(n, Len(s)) + 1, Len(s))

Digit(d) == <<"0", "1", "2", "3", "4", "5", "6", "7", "8", "9">>[d + 1]

RECURSIVE to_string(_)
\* std::to_string(size_t): decimal digits, most significant first, no padding.
to_string(n) ==
    IF n < 10 THEN <<Digit(n)>>
    ELSE to_string(n \div 10) \o <<Digit(n % 10)>>

\* ------------------------------------------------------ derived parameters

\* x - y in size_t.
USub(x, y) == (x - y) % SizeMod

kmers_per_window(a) == (USub(a.window_size, a.kmer_size) + 1) % SizeMod

kmers_per_pattern(a) == (USub(a.pattern_size, a.kmer_size) + 1) % SizeMod

\* std::ceil(kmers_per_pattern / static_cast<double>(kmers_per_window))
CeilDiv(x, y) == (x + y - 1) \div y

min_number_of_minimisers(a) ==
    IF kmers_per_window(a) = 1 THEN kmers_per_pattern(a)
    ELSE CeilDiv(kmers_per_pattern(a), kmers_per_window(a))

\* The subtraction without the comparison that guards it.
kmer_lemma_unguarded(a) ==
    USub(a.pattern_size + 1, (a.errors + 1) * a.kmer_size)

kmer_lemma(a) ==
    IF a.pattern_size + 1 > (a.errors + 1) * a.kmer_size
    THEN USub(a.pattern_size + 1, (a.errors + 1) * a.kmer_size)
    ELSE 0

max_number_of_minimisers(a) ==
    (USub(a.pattern_size, a.window_size) + 1) % SizeMod

\* ---------------------------------------------------------- threshold model

\* The table of minimiser_model.hpp: one entry per minimiser count from
\* min_number_of_minimisers to max_number_of_minimisers; entry i is the
\* number of minimisers that survive `errors` errors, each destroying at most
\* kmers_per_window minimisers, and never negative.
precompute_threshold(a) ==
    [i \in 1 .. (max_number_of_minimisers(a) - min_number_of_minimisers(a) + 1) |->
        Max(0, min_number_of_minimisers(a) + i - 1 - a.errors * kmers_per_window(a))]

\* The threshold cache file: <<>> when absent, <<table>> when present.
NoCache == <<>>

\* do_cerealisation_in: TRUE iff the cache file exists (the table is read from it).
do_cerealisation_in(c) == c # NoCache

\* do_cerealisation_out: the cache file after the table was written to it.
do_cerealisation_out(table) == <<table>>

\* compute_simple_model: <<precomp_thresholds, the cache file afterwards, the
\* functions it has called>>.  The && of line 54 does not evaluate
\* do_cerealisation_in when arguments.threshold is not zero.
compute_simple_model(a, c) ==
    IF ~(a.threshold.num # 0) /\ ~do_cerealisation_in(c)
    THEN <<precompute_threshold(a), do_cerealisation_out(precompute_threshold(a)),
           {"do_cerealisation_in", "precompute_threshold", "do_cerealisation_out"}>>
    ELSE IF ~(a.threshold.num # 0)
    THEN <<c[1], c, {"do_cerealisation_in"}>>
    ELSE <<<<>>, c, {}>>

\* The product cast to count_size_type instead of size_t.
UserThresholdU8(m, t) == ((m * t.num) \div t.den) % CountMod

\* static_cast<size_t>(minimiser_count * arguments.threshold), the threshold
\* being the rational num/den.  The thresholds of the model have a power of
\* two as denominator, for which the product in double is exact.
UserThreshold(m, t) == (m * t.num) \div t.den

\* The index into precomp_thresholds (lines 202-206, 303-307).
ThresholdIndex(a, m) ==
    Min(IF m < min_number_of_minimisers(a) THEN 0
        ELSE USub(m, min_number_of_minimisers(a)),
        USub(max_number_of_minimisers(a), min_number_of_minimisers(a)))

\* The threshold without the + 2 on the table's entry.
ThresholdNoPlusTwo(a, table, m) ==
    IF a.treshold_was_set THEN UserThreshold(m, a.threshold)
    ELSE IF kmers_per_window(a) = 1 THEN kmer_lemma(a)
    ELSE table[ThresholdIndex(a, m) + 1]

\* size_t const threshold = ... (lines 199-206 and 300-307).
Threshold(a, table, m) ==
    IF a.treshold_was_set THEN UserThreshold(m, a.threshold)
    ELSE IF kmers_per_window(a) = 1 THEN kmer_lemma(a)
    ELSE table[ThresholdIndex(a, m) + 1] + 2

\* The workers index precomp_thresholds (lines 199-206, 300-307).
TableIndexed(a) == ~a.treshold_was_set /\ kmers_per_window(a) # 1

\* The element the workers index exists.
LookupInBounds(a, table, m) ==
    TableIndexed(a) => ThresholdIndex(a, m) < Len(table)

\* What operator[] past the end of the vector can return, as a size_t.
OutOfBoundsReads == {0, SizeMod - 1}

\* The values `threshold` can take: operator[] past the end of
\* precomp_thresholds is undefined and can return anything.
ThresholdReads(a, table, m) ==
    IF LookupInBounds(a, table, m) THEN {Threshold(a, table, m)}
    ELSE {(v + 2) % SizeMod : v \in OutOfBoundsReads}

\* ------------------------------------------------------- index and counting

\* bin_count() of an IBF; the default-constructed IBF has no bins.
bin_count(f) == Len(f)

DefaultIbf == <<>>

\* The file arguments.ibf_file + "_" + part of an index built in `parts`
\* parts: every part has all the bins and holds the hashes h of its share of
\* the hash space.
IbfPartFile(idx, parts, part) ==
    [b \in 1 .. Len(idx) |-> {h \in idx[b] : h % parts = part}]

\* Number of minimisers of a query sequence: minimiser.size().
minimiser_size(seq) == SumOver(DOMAIN seq, seq)

\* counter.bulk_count(minimisers): per bin, the number of the minimisers found
\* in the bin, held in a count_size_type.
bulk_count(f, seq) ==
    [b \in 1 .. Len(f) |->
        SumOver({h \in DOMAIN seq : h \in f[b]}, seq) % CountMod]

\* counting_vector(width, 0)
ZeroCounts(width) == [b \in 1 .. width |-> 0]

\* counts[i] += result: element-wise over the accumulator, in count_size_type.
Accumulate(acc, res) ==
    [b \in 1 .. Len(acc) |-> (acc[b] + res[b]) % CountMod]

RECURSIVE EmitBinsStrict(_, _, _)
\* The loop with count > threshold for count >= threshold.
EmitBinsStrict(cnt, threshold, from) ==
    IF from > Len(cnt) THEN <<>>
    ELSE (IF cnt[from] > threshold
          THEN to_string(from - 1) \o <<COMMA>>
          ELSE <<>>) \o EmitBinsStrict(cnt, threshold, from + 1)

RECURSIVE EmitBins(_, _, _)
\* The loop over the counts (lines 208-216, 309-317), from position `from` on.
EmitBins(cnt, threshold, from) ==
    IF from > Len(cnt) THEN <<>>
    ELSE (IF cnt[from] >= threshold
          THEN to_string(from - 1) \o <<COMMA>>
          ELSE <<>>) \o EmitBins(cnt, threshold, from + 1)

\* result_string of one record (lines 188-217, 290-318).
ResultString(id, cnt, threshold) ==
    id \o <<TAB>> \o EmitBins(cnt, threshold, 1) \o <<LF>>

\* ------------------------------------------------------------ do_parallel

\* do_parallel without the last range taking the remainder.
TaskRangeNoRemainder(i, num_records, threads) ==
    LET records_per_thread == num_records \div threads
    IN  [start |-> records_per_thread * i,
         end   |-> records_per_thread * (i + 1)]

\* do_parallel with records_per_thread rounded up.
TaskRangeRoundUp(i, num_records, threads) ==
    LET records_per_thread == (num_records + threads - 1) \div threads
    IN  [start |-> records_per_thread * i,
         end   |-> IF i = threads - 1 THEN num_records
                   ELSE records_per_thread * (i + 1)]

\* do_parallel with num_records as the end of every range.
TaskRangeToEnd(i, num_records, threads) ==
    LET records_per_thread == num_records \div threads
    IN  [start |-> records_per_thread * i,
         end   |-> num_records]

\* The range of task i of do_parallel (lines 86-91).
TaskRange(i, num_records, threads) ==
    LET records_per_thread == num_records \div threads
    IN  [start |-> records_per_thread * i,
         end   |-> IF i = threads - 1 THEN num_records
                   ELSE records_per_thread * (i + 1)]

\* A task as std::async starts it: at the head of its loop over the slice.
NewTask(kind, r) ==
    [kind |-> kind, pc |-> "loop", start |-> r.start, end |-> r.end,
     counter_id |-> r.start, minimiser_count |-> 0, threshold |-> 0,
     result_string |-> <<>>, pos |-> 0, sent |-> <<>>]

\* The tasks do_parallel spawns (lines 88-93).
SpawnTasks(kind, num_records, threads) ==
    [i \in 0 .. threads - 1 |-> NewTask(kind, TaskRange(i, num_records, threads))]

\* ------------------------------------------------------------------- state

VARIABLES
    args,               \* search_arguments
    index,              \* the index on disk, before it is split into parts
    query,              \* the records of arguments.query_file
    cache,              \* the threshold cache file
    fin,                \* number of records already read from the query file
    pc,                 \* position of the orchestrator thread
    ibf,                \* the interleaved_bloom_filter object
    loader,             \* cereal_handle: "idle", "running" or "done"
    records,            \* the chunk buffer
    precomp_thresholds, \* the threshold table
    counts,             \* the per-record accumulators (multi-part mode)
    part,               \* the part held by ibf in the multi-part loop
    tasks,              \* the tasks of the running do_parallel
    write_mutex,        \* sync_out::write_mutex: its holder, or NoThread
    file,               \* the content of arguments.out_file
    passed,             \* the strings passed to write() since file was opened
    model_calls,        \* the functions compute_simple_model has called
    timer_writes        \* per timer, the threads that have added to it

vars == <<args, index, query, cache, fin, pc, ibf, loader, records,
          precomp_thresholds, counts, part, tasks, write_mutex, file, passed,
          model_calls, timer_writes>>

inputs == <<args, index, query>>

\* ------------------------------------------------------------------ inputs

Half == [num |-> 1, den |-> 2]

Zero == [num |-> 0, den |-> 1]

One == [num |-> 1, den |-> 1]

\* --threshold given: treshold_was_set, threshold = t.
UserParams(t) ==
    [treshold_was_set |-> TRUE, threshold |-> t,
     kmer_size |-> 2, window_size |-> 3, pattern_size |-> 5, errors |-> 1]

\* No --threshold, window_size = kmer_size: the k-mer lemma decides.
LemmaParams(e) ==
    [treshold_was_set |-> FALSE, threshold |-> Zero,
     kmer_size |-> 2, window_size |-> 2, pattern_size |-> 4, errors |-> e]

\* No --threshold, window_size > kmer_size: the table decides.
TableParams(p) ==
    [treshold_was_set |-> FALSE, threshold |-> Zero,
     kmer_size |-> 2, window_size |-> 3, pattern_size |-> p, errors |-> 1]

WithRun(params, parts, threads) ==
    [parts |-> parts, threads |-> threads,
     treshold_was_set |-> params.treshold_was_set,
     threshold |-> params.threshold,
     kmer_size |-> params.kmer_size, window_size |-> params.window_size,
     pattern_size |-> params.pattern_size, errors |-> params.errors]

\* A multiset of hashes as a function on Hashes.
Seq4(c0, c1, c2, c3) == [h \in Hashes |-> <<c0, c1, c2, c3>>[h + 1]]

\* The query file of the streamed runs: a query with two minimisers, a query
\* shorter than the window (no minimiser), a long query with 300 minimisers,
\* a query with three and a query with one.
QueryFile ==
    << [id |-> <<"a">>, seq |-> Seq4(1, 1, 0, 0)],
       [id |-> <<"b">>, seq |-> Seq4(0, 0, 0, 0)],
       [id |-> <<"c">>, seq |-> Seq4(200, 100, 0, 0)],
       [id |-> <<"d">>, seq |-> Seq4(0, 0, 1, 2)],
       [id |-> <<"e">>, seq |-> Seq4(0, 1, 0, 0)] >>

\* The index of the streamed runs: two bins.
StreamIndex == << {0, 1}, {1, 2} >>

\* An index of eleven bins, so that bin ids of two digits are written.
WideIndex == << {0}, {}, {1}, {}, {}, {}, {}, {}, {}, {}, {0, 1} >>

StreamParams == {UserParams(Half), LemmaParams(1), TableParams(5)}

RecordParams ==
    {UserParams(Zero), UserParams(Half), UserParams(One),
     LemmaParams(0), LemmaParams(1), LemmaParams(2),
     TableParams(5), TableParams(7)}

RecordIndexes == {StreamIndex, WideIndex, << {0}, {1} >>}

RecordQueries ==
    {[id |-> <<"q", "7">>, seq |-> Seq4(c0, c1, 0, 0)] :
        c0 \in 0 .. MaxMult, c1 \in 0 .. MaxMult}

\* -------------------------------------------------------------------- Init

\* The state after argument parsing, before raptor_search runs.
InitRun ==
    /\ fin = 0
    /\ pc = "start"
    /\ ibf = DefaultIbf
    /\ loader = "idle"
    /\ records = <<>>
    /\ precomp_thresholds = <<>>
    /\ counts = <<>>
    /\ part = 0
    /\ tasks = <<>>
    /\ write_mutex = NoThread
    /\ file = <<>>
    /\ passed = {}
    /\ model_calls = {}
    /\ timer_writes = [ibf_io_time |-> {}, reads_io_time |-> {},
                       compute_time |-> {}]

\* A stream of up to MaxRecords records against the two-bin index.
InitStream ==
    /\ \E p \in StreamParams, parts \in 1 .. MaxParts, threads \in 1 .. MaxThreads :
          args = WithRun(p, parts, threads)
    /\ index = StreamIndex
    /\ \E n \in 0 .. MaxRecords : query = Take(QueryFile, n)
    /\ cache = NoCache
    /\ InitRun

\* One record, one thread: every parameterisation, index and query drawn.
InitRecord ==
    /\ \E p \in RecordParams, parts \in 1 .. MaxParts :
          /\ args = WithRun(p, parts, 1)
          /\ cache \in {NoCache, do_cerealisation_out(precompute_threshold(p))}
    /\ index \in RecordIndexes
    /\ \E q \in RecordQueries : query = <<q>>
    /\ InitRun

Init == InitStream \/ InitRecord

\* ----------------------------------------------------------------- loader

\* The file the background load reads: arguments.ibf_file in single-part mode
\* (line 246), part 0 in multi-part mode (line 129).
LoaderFile ==
    IF args.parts = 1 THEN index ELSE IbfPartFile(index, args.parts, 0)

\* cereal_worker completes: iarchive(ibf) has filled ibf.
LoaderFinish ==
    /\ loader = "running"
    /\ ibf' = LoaderFile
    /\ loader' = "done"
    /\ timer_writes' = [timer_writes EXCEPT !.ibf_io_time = @ \cup {BackgroundLoader}]
    /\ UNCHANGED model_calls
    /\ UNCHANGED <<inputs, cache, fin, pc, records, precomp_thresholds, counts,
                   part, tasks, write_mutex, file, passed>>

\* cereal_handle.wait() without the wait.
cereal_handle_unwaited == TRUE

\* cereal_handle.wait() returns (lines 163, 331): the background load is over.
cereal_handle_ready == loader = "done"

\* ------------------------------------------------------------------ tasks

\* The loop of lines 95-96 waiting for the first task only.
AllDoneFirst == tasks = <<>> \/ tasks[0].pc = "done"

\* for (auto && task : tasks) task.wait(); has returned (lines 95-96).
AllDone == \A t \in DOMAIN tasks : tasks[t].pc = "done"

\* The record a task is at.
CurrentRecord(t) == records[tasks[t].counter_id + 1]

\* The loop over the slice ends: the task completes.
TaskEnd(t) ==
    /\ tasks[t].pc = "loop"
    /\ tasks[t].counter_id >= tasks[t].end
    /\ tasks' = [tasks EXCEPT ![t].pc = "done"]
    /\ UNCHANGED <<model_calls, timer_writes>>
    /\ UNCHANGED <<inputs, cache, fin, pc, ibf, loader, records,
                   precomp_thresholds, counts, part, write_mutex, file, passed>>

\* run_program_single's worker, one record up to the call of write
\* (lines 290-319).
WorkerRecord(t) ==
    /\ tasks[t].kind = "worker"
    /\ tasks[t].pc = "loop"
    /\ tasks[t].counter_id < tasks[t].end
    /\ \E threshold \in ThresholdReads(args, precomp_thresholds,
                                       minimiser_size(CurrentRecord(t).seq)) :
          LET rec == CurrentRecord(t)
              result == bulk_count(ibf, rec.seq)
              m == minimiser_size(rec.seq)
              line == ResultString(rec.id, result, threshold)
          IN  /\ tasks' = [tasks EXCEPT ![t].minimiser_count = m,
                                        ![t].threshold = threshold,
                                        ![t].result_string = line,
                                        ![t].sent = Append(@, line),
                                        ![t].pos = 0,
                                        ![t].pc = "lock"]
              /\ passed' = passed \cup {line}
    /\ UNCHANGED <<model_calls, timer_writes>>
    /\ UNCHANGED <<inputs, cache, fin, pc, ibf, loader, records,
                   precomp_thresholds, counts, part, write_mutex, file>>

\* run_program_multiple's count_task, one record (lines 155-160).
CountRecord(t) ==
    /\ tasks[t].kind = "count_task"
    /\ tasks[t].pc = "loop"
    /\ tasks[t].counter_id < tasks[t].end
    /\ LET rec == CurrentRecord(t)
           result == bulk_count(ibf, rec.seq)
           i == tasks[t].counter_id + 1
       IN  /\ counts' = [counts EXCEPT ![i] = Accumulate(@, result)]
           /\ tasks' = [tasks EXCEPT ![t].counter_id = @ + 1]
    /\ UNCHANGED <<model_calls, timer_writes>>
    /\ UNCHANGED <<inputs, cache, fin, pc, ibf, loader, records,
                   precomp_thresholds, part, write_mutex, file, passed>>

\* run_program_multiple's output_task, one record up to the call of write
\* (lines 188-218).
OutputRecord(t) ==
    /\ tasks[t].kind = "output_task"
    /\ tasks[t].pc = "loop"
    /\ tasks[t].counter_id < tasks[t].end
    /\ \E threshold \in ThresholdReads(args, precomp_thresholds,
                                       minimiser_size(CurrentRecord(t).seq)) :
          LET rec == CurrentRecord(t)
              i == tasks[t].counter_id + 1
              acc == Accumulate(counts[i], bulk_count(ibf, rec.seq))
              m == minimiser_size(rec.seq)
              line == ResultString(rec.id, acc, threshold)
          IN  /\ counts' = [counts EXCEPT ![i] = acc]
              /\ tasks' = [tasks EXCEPT ![t].minimiser_count = m,
                                        ![t].threshold = threshold,
                                        ![t].result_string = line,
                                        ![t].sent = Append(@, line),
                                        ![t].pos = 0,
                                        ![t].pc = "lock"]
              /\ passed' = passed \cup {line}
    /\ UNCHANGED <<model_calls, timer_writes>>
    /\ UNCHANGED <<inputs, cache, fin, pc, ibf, loader, records,
                   precomp_thresholds, part, write_mutex, file>>

\* write() without the lock.
CanLockAlways(t) == TRUE

\* std::lock_guard's constructor may take write_mutex.
CanLock(t) == write_mutex = NoThread

\* sync_out::write, line 41: the lock is taken.
WriteLock(t) ==
    /\ tasks[t].pc = "lock"
    /\ CanLock(t)
    /\ write_mutex' = t
    /\ tasks' = [tasks EXCEPT ![t].pc = "write"]
    /\ UNCHANGED <<model_calls, timer_writes>>
    /\ UNCHANGED <<inputs, cache, fin, pc, ibf, loader, records,
                   precomp_thresholds, counts, part, file, passed>>

\* sync_out::write, line 42: file << data, one character at a time.
WriteChar(t) ==
    /\ tasks[t].pc = "write"
    /\ tasks[t].pos < Len(tasks[t].result_string)
    /\ file' = Append(file, tasks[t].result_string[tasks[t].pos + 1])
    /\ tasks' = [tasks EXCEPT ![t].pos = @ + 1]
    /\ UNCHANGED <<model_calls, timer_writes>>
    /\ UNCHANGED <<inputs, cache, fin, pc, ibf, loader, records,
                   precomp_thresholds, counts, part, write_mutex, passed>>

\* write() returning without the release of write_mutex.
WriteUnlockKeepsMutex(t) ==
    /\ tasks[t].pc = "write"
    /\ tasks[t].pos = Len(tasks[t].result_string)
    /\ tasks' = [tasks EXCEPT ![t].pc = "loop", ![t].counter_id = @ + 1]
    /\ UNCHANGED <<model_calls, timer_writes, write_mutex>>
    /\ UNCHANGED <<inputs, cache, fin, pc, ibf, loader, records,
                   precomp_thresholds, counts, part, file, passed>>

\* sync_out::write, line 43: the lock_guard releases write_mutex; the task
\* goes on to its next record.
WriteUnlock(t) ==
    /\ tasks[t].pc = "write"
    /\ tasks[t].pos = Len(tasks[t].result_string)
    /\ write_mutex' = NoThread
    /\ tasks' = [tasks EXCEPT ![t].pc = "loop", ![t].counter_id = @ + 1]
    /\ UNCHANGED <<model_calls, timer_writes>>
    /\ UNCHANGED <<inputs, cache, fin, pc, ibf, loader, records,
                   precomp_thresholds, counts, part, file, passed>>

\* ------------------------------------------------------ run_program_single

\* Lines 244-276: the background load starts, the output file is opened
\* (and truncated), the threshold table is computed.
SingleSetup ==
    /\ pc = "start"
    /\ args.parts = 1
    /\ loader' = "running"
    /\ file' = <<>>
    /\ passed' = {}
    /\ precomp_thresholds' = compute_simple_model(args, cache)[1]
    /\ cache' = compute_simple_model(args, cache)[2]
    /\ pc' = "s_chunk"
    /\ model_calls' = compute_simple_model(args, cache)[3]
    /\ UNCHANGED timer_writes
    /\ UNCHANGED <<inputs, fin, ibf, records, counts, part, tasks, write_mutex>>

\* Lines 323-329: the next chunk is moved into records.
SingleReadChunk ==
    /\ pc = "s_chunk"
    /\ fin < Len(query)
    /\ records' = Take(Drop(query, fin), ChunkSize)
    /\ fin' = Min(fin + ChunkSize, Len(query))
    /\ pc' = "s_wait"
    /\ timer_writes' = [timer_writes EXCEPT !.reads_io_time = @ \cup {Orchestrator}]
    /\ UNCHANGED model_calls
    /\ UNCHANGED <<inputs, cache, ibf, loader, precomp_thresholds, counts,
                   part, tasks, write_mutex, file, passed>>

\* Lines 331-333: cereal_handle.wait() returns, do_parallel spawns the workers.
SingleCompute ==
    /\ pc = "s_wait"
    /\ cereal_handle_ready
    /\ tasks' = SpawnTasks("worker", Len(records), args.threads)
    /\ pc' = "s_join"
    /\ UNCHANGED <<model_calls, timer_writes>>
    /\ UNCHANGED <<inputs, cache, fin, ibf, loader, records,
                   precomp_thresholds, counts, part, write_mutex, file, passed>>

\* Lines 95-96: every task.wait() of do_parallel has returned.
SingleJoin ==
    /\ pc = "s_join"
    /\ AllDone
    /\ tasks' = <<>>
    /\ pc' = "s_chunk"
    /\ timer_writes' = [timer_writes EXCEPT !.compute_time = @ \cup {Orchestrator}]
    /\ UNCHANGED model_calls
    /\ UNCHANGED <<inputs, cache, fin, ibf, loader, records,
                   precomp_thresholds, counts, part, write_mutex, file, passed>>

\* The query file is exhausted; cereal_handle's destructor waits for the load.
SingleFinish ==
    /\ pc = "s_chunk"
    /\ fin = Len(query)
    /\ loader = "done"
    /\ pc' = "done"
    /\ UNCHANGED <<model_calls, timer_writes>>
    /\ UNCHANGED <<inputs, cache, fin, ibf, loader, records,
                   precomp_thresholds, counts, part, tasks, write_mutex, file,
                   passed>>

\* ---------------------------------------------------- run_program_multiple

\* Lines 107-125: the threshold table is computed.
MultiSetup ==
    /\ pc = "start"
    /\ args.parts # 1
    /\ precomp_thresholds' = compute_simple_model(args, cache)[1]
    /\ cache' = compute_simple_model(args, cache)[2]
    /\ pc' = "m_chunk"
    /\ model_calls' = compute_simple_model(args, cache)[3]
    /\ UNCHANGED timer_writes
    /\ UNCHANGED <<inputs, fin, ibf, loader, records, counts, part, tasks,
                   write_mutex, file, passed>>

\* Lines 134-140: the background load of part 0 starts, then the next chunk
\* is moved into records.
MultiReadChunk ==
    /\ pc = "m_chunk"
    /\ fin < Len(query)
    /\ loader' = "running"
    /\ records' = Take(Drop(query, fin), ChunkSize)
    /\ fin' = Min(fin + ChunkSize, Len(query))
    /\ pc' = "m_alloc"
    /\ timer_writes' = [timer_writes EXCEPT !.reads_io_time = @ \cup {Orchestrator}]
    /\ UNCHANGED model_calls
    /\ UNCHANGED <<inputs, cache, ibf, precomp_thresholds, counts, part, tasks,
                   write_mutex, file, passed>>

\* What ibf.bin_count() can return at line 143: the load of line 134 may not
\* have begun, be under way or be complete, and nothing orders the read
\* after it.
AllocWidths ==
    IF loader = "running"
    THEN {bin_count(ibf), bin_count(LoaderFile)}
    ELSE {bin_count(ibf)}

\* Lines 142-143: the accumulators are allocated.
MultiAlloc ==
    /\ pc = "m_alloc"
    /\ \E width \in AllocWidths :
          counts' = [i \in 1 .. Len(records) |-> ZeroCounts(width)]
    /\ pc' = "m_wait"
    /\ UNCHANGED <<model_calls, timer_writes>>
    /\ UNCHANGED <<inputs, cache, fin, ibf, loader, records,
                   precomp_thresholds, part, tasks, write_mutex, file, passed>>

\* Lines 163-164: cereal_handle.wait() returns, do_parallel spawns count_task
\* for part 0.
MultiCountFirst ==
    /\ pc = "m_wait"
    /\ cereal_handle_ready
    /\ part' = 0
    /\ tasks' = SpawnTasks("count_task", Len(records), args.threads)
    /\ pc' = "m_join_count"
    /\ UNCHANGED <<model_calls, timer_writes>>
    /\ UNCHANGED <<inputs, cache, fin, ibf, loader, records,
                   precomp_thresholds, counts, write_mutex, file, passed>>

\* The loop of line 166 running up to the last part.
HasMiddlePartToLast(p) == p + 1 < args.parts

\* Whether the loop of line 166, std::views::iota(1u, parts - 1), has a next
\* part after `p`.
HasMiddlePart(p) == p + 1 < args.parts - 1

\* Lines 166-170: the previous do_parallel has returned; the next middle part
\* is loaded and count_task runs on it.
MultiCountNext ==
    /\ pc = "m_join_count"
    /\ AllDone
    /\ HasMiddlePart(part)
    /\ ibf' = IbfPartFile(index, args.parts, part + 1)
    /\ part' = part + 1
    /\ tasks' = SpawnTasks("count_task", Len(records), args.threads)
    /\ timer_writes' = [timer_writes EXCEPT !.compute_time = @ \cup {Orchestrator},
                                            !.ibf_io_time = @ \cup {Orchestrator}]
    /\ UNCHANGED model_calls
    /\ UNCHANGED <<inputs, cache, fin, pc, loader, records,
                   precomp_thresholds, counts, write_mutex, file, passed>>

\* Lines 172-222: the last part is loaded, the output file is opened (and
\* truncated) by sync_out's constructor, do_parallel spawns output_task.
MultiOutput ==
    /\ pc = "m_join_count"
    /\ AllDone
    /\ ~HasMiddlePart(part)
    /\ ibf' = IbfPartFile(index, args.parts, args.parts - 1)
    /\ part' = args.parts - 1
    /\ file' = <<>>
    /\ passed' = {}
    /\ write_mutex' = NoThread
    /\ tasks' = SpawnTasks("output_task", Len(records), args.threads)
    /\ pc' = "m_join_out"
    /\ timer_writes' = [timer_writes EXCEPT !.compute_time = @ \cup {Orchestrator},
                                            !.ibf_io_time = @ \cup {Orchestrator}]
    /\ UNCHANGED model_calls
    /\ UNCHANGED <<inputs, cache, fin, loader, records, precomp_thresholds,
                   counts>>

\* Lines 222-223: do_parallel has returned; the chunk's locals are destroyed.
MultiJoin ==
    /\ pc = "m_join_out"
    /\ AllDone
    /\ tasks' = <<>>
    /\ loader' = "idle"
    /\ pc' = "m_chunk"
    /\ timer_writes' = [timer_writes EXCEPT !.compute_time = @ \cup {Orchestrator}]
    /\ UNCHANGED model_calls
    /\ UNCHANGED <<inputs, cache, fin, ibf, records, precomp_thresholds,
                   counts, part, write_mutex, file, passed>>

\* The query file is exhausted.
MultiFinish ==
    /\ pc = "m_chunk"
    /\ fin = Len(query)
    /\ pc' = "done"
    /\ UNCHANGED <<model_calls, timer_writes>>
    /\ UNCHANGED <<inputs, cache, fin, ibf, loader, records,
                   precomp_thresholds, counts, part, tasks, write_mutex, file,
                   passed>>

\* -------------------------------------------------------------------- Next

Next ==
    \/ LoaderFinish
    \/ \E t \in DOMAIN tasks : TaskEnd(t)
    \/ \E t \in DOMAIN tasks : WorkerRecord(t)
    \/ \E t \in DOMAIN tasks : CountRecord(t)
    \/ \E t \in DOMAIN tasks : OutputRecord(t)
    \/ \E t \in DOMAIN tasks : WriteLock(t)
    \/ \E t \in DOMAIN tasks : WriteChar(t)
    \/ \E t \in DOMAIN tasks : WriteUnlock(t)
    \/ SingleSetup
    \/ SingleReadChunk
    \/ SingleCompute
    \/ SingleJoin
    \/ SingleFinish
    \/ MultiSetup
    \/ MultiReadChunk
    \/ MultiAlloc
    \/ MultiCountFirst
    \/ MultiCountNext
    \/ MultiOutput
    \/ MultiJoin
    \/ MultiFinish

Spec == Init /\ [][Next]_vars

\* ------------------------------------------------- every search_arguments

\* Every combination of the fields of search_arguments that the functions
\* of raptor_search.cpp read for the threshold: treshold_was_set and threshold
\* are two fields, and nothing in the file ties one to the other.
ArgParams ==
    {[treshold_was_set |-> f, threshold |-> t,
      kmer_size |-> k, window_size |-> w, pattern_size |-> p, errors |-> e] :
        f \in BOOLEAN, t \in {Zero, Half},
        k \in 1 .. MaxKmer, w \in 1 .. MaxWindow, p \in 1 .. MaxPattern,
        e \in 0 .. MaxErrors}

\* Section 3 of the parameterisation: kmer_size <= window_size <= pattern_size.
ValidSizes(a) == a.kmer_size <= a.window_size /\ a.window_size <= a.pattern_size

\* One record, one thread, single-part and the most parts: every
\* search_arguments with valid sizes, with and without the cache file.
InitArgs ==
    /\ \E a \in {b \in ArgParams : ValidSizes(b)}, parts \in {1, MaxParts} :
          /\ args = WithRun(a, parts, 1)
          /\ cache \in {NoCache, do_cerealisation_out(precompute_threshold(a))}
    /\ index = StreamIndex
    /\ \E i \in 1 .. ChunkSize : query = <<QueryFile[i]>>
    /\ InitRun

\* precomp_thresholds[...] past the end of the vector (lines 202-206, 303-307)
\* is undefined: besides returning anything (ThresholdReads) it can end the
\* process.
OutOfBoundsAbort(t) ==
    /\ tasks[t].kind \in {"worker", "output_task"}
    /\ tasks[t].pc = "loop"
    /\ tasks[t].counter_id < tasks[t].end
    /\ ~LookupInBounds(args, precomp_thresholds,
                       minimiser_size(CurrentRecord(t).seq))
    /\ tasks' = [u \in DOMAIN tasks |-> [tasks[u] EXCEPT !.pc = "aborted"]]
    /\ pc' = "aborted"
    /\ UNCHANGED <<model_calls, timer_writes>>
    /\ UNCHANGED <<inputs, cache, fin, ibf, loader, records,
                   precomp_thresholds, counts, part, write_mutex, file, passed>>

NextArgs ==
    \/ Next
    \/ \E t \in DOMAIN tasks : OutOfBoundsAbort(t)

SpecArgs == InitArgs /\ [][NextArgs]_vars

\* ---------------------------------------------------------------- fairness

\* The steps of the thread of task t (a std::async with std::launch::async).
TaskStep(t) ==
    /\ t \in DOMAIN tasks
    /\ \/ TaskEnd(t)
       \/ WorkerRecord(t)
       \/ CountRecord(t)
       \/ OutputRecord(t)
       \/ WriteLock(t)
       \/ WriteChar(t)
       \/ WriteUnlock(t)

\* The steps of the thread that runs raptor_search.
OrchestratorStep ==
    \/ SingleSetup
    \/ SingleReadChunk
    \/ SingleCompute
    \/ SingleJoin
    \/ SingleFinish
    \/ MultiSetup
    \/ MultiReadChunk
    \/ MultiAlloc
    \/ MultiCountFirst
    \/ MultiCountNext
    \/ MultiOutput
    \/ MultiJoin
    \/ MultiFinish

\* The streamed runs (every number of records, threads and parts) under fair
\* scheduling.
\* Every thread is a thread of its own (std::launch::async) and the operating
\* system's scheduler lets each thread that can take a step take it in the
\* end.  std::mutex promises no order among the threads that wait for it,
\* so the fairness is weak: a waiting thread is owed the lock only once the
\* mutex stays free.
FairSpec ==
    /\ InitStream
    /\ [][Next]_vars
    /\ WF_vars(LoaderFinish)
    /\ WF_vars(OrchestratorStep)
    /\ \A t \in 0 .. MaxThreads - 1 : WF_vars(TaskStep(t))

\* ------------------------------------------------------- reading the output

RECURSIVE Segments(_, _, _)
\* The pieces of s that end with sep, without it; `cur` is the piece so far.
Segments(s, sep, cur) ==
    IF s = <<>> THEN <<>>
    ELSE IF Head(s) = sep THEN <<cur>> \o Segments(Tail(s), sep, <<>>)
    ELSE Segments(Tail(s), sep, Append(cur, Head(s)))

RECURSIVE Remainder(_, _, _)
\* What follows the last sep of s (all of s when it has none).
Remainder(s, sep, cur) ==
    IF s = <<>> THEN cur
    ELSE IF Head(s) = sep THEN Remainder(Tail(s), sep, <<>>)
    ELSE Remainder(Tail(s), sep, Append(cur, Head(s)))

\* The complete lines of the output file, each without its line feed.
FileLines == Segments(file, LF, <<>>)

\* The id of a line: what precedes its first tab.
LineId(line) == Segments(line, TAB, <<>>)[1]

\* Number of lines of `lines` that carry the id `id`.
LinesWithId(lines, id) ==
    Cardinality({j \in 1 .. Len(lines) :
                    /\ Segments(lines[j], TAB, <<>>) # <<>>
                    /\ LineId(lines[j]) = id})

\* The lines hold exactly one line for each record of recs.
OneLinePerRecord(lines, recs) ==
    /\ Len(lines) = Len(recs)
    /\ \A i \in 1 .. Len(recs) : LinesWithId(lines, recs[i].id) = 1

\* ------------------------------------------------------------------ claims

\* C1: in multi-part mode (parts >= 2) the results file at the end of
\* run_program_multiple holds exactly one line per query record of the whole
\* stream, whatever the number of chunks: the lines of an earlier chunk are
\* still there after the later chunks.
C1_MultiOneLinePerRecord ==
    (pc = "done" /\ args.parts >= 2) => OneLinePerRecord(FileLines, query)

\* The lines the tasks of the running do_parallel have passed to write().
SentByTasks(id) ==
    SumOver(DOMAIN tasks,
            [t \in DOMAIN tasks |-> LinesWithId(tasks[t].sent, id)])

\* C2: in single-part mode every record of a chunk is processed by exactly
\* one worker exactly once, for every number of threads and chunk size (also
\* a chunk smaller than the number of threads), and the results file ends
\* with exactly one line per record of the stream.
C2_SingleOneLinePerRecord ==
    /\ (pc = "s_join" /\ AllDone) =>
          \A i \in 1 .. Len(records) : SentByTasks(records[i].id) = 1
    /\ (pc = "done" /\ args.parts = 1) => OneLinePerRecord(FileLines, query)

\* A single-part run of two threads over two chunks, the second smaller than
\* the number of threads, has ended with its four lines.
C2_Witness ==
    /\ pc = "done"
    /\ args.parts = 1
    /\ args.threads = 2
    /\ Len(query) = 4
    /\ Len(FileLines) = 4


\* ----------------------------------------------------- reading one line

\* What follows the first sep of s (empty when s has none).
AfterFirst(s, sep) ==
    IF \E i \in 1 .. Len(s) : s[i] = sep
    THEN LET i == CHOOSE j \in 1 .. Len(s) :
                      /\ s[j] = sep
                      /\ \A k \in 1 .. j - 1 : s[k] # sep
         IN  SubSeq(s, i + 1, Len(s))
    ELSE <<>>

IsDigit(c) == \E d \in 0 .. 9 : Digit(d) = c

DigitValue(c) == CHOOSE d \in 0 .. 9 : Digit(d) = c

\* s is a decimal numeral without zero padding.
IsDecimal(s) ==
    /\ s # <<>>
    /\ \A i \in 1 .. Len(s) : IsDigit(s[i])
    /\ (Len(s) > 1 => s[1] # "0")

RECURSIVE DecimalValue(_)
\* The number a decimal numeral denotes.
DecimalValue(s) ==
    IF s = <<>> THEN 0
    ELSE 10 * DecimalValue(SubSeq(s, 1, Len(s) - 1)) + DigitValue(s[Len(s)])

\* The numerals of a result string: the comma-terminated pieces between its
\* first tab and its final line feed.
BinFields(line) == Segments(AfterFirst(SubSeq(line, 1, Len(line) - 1), TAB), COMMA, <<>>)

\* The bins a result string lists.
ListedBins(line) ==
    {DecimalValue(BinFields(line)[j]) : j \in 1 .. Len(BinFields(line))}

\* The tasks that have built a result string and are writing it.
Writing == {t \in DOMAIN tasks : tasks[t].pc \in {"lock", "write"}}

\* The counts the line of a writing task was built from: bulk_count's result
\* in single-part mode, the record's accumulator in multi-part mode.
LineCounts(t) ==
    IF tasks[t].kind = "worker"
    THEN bulk_count(ibf, CurrentRecord(t).seq)
    ELSE counts[tasks[t].counter_id + 1]

\* C3: a query with zero minimisers produces exactly the line <id>\t\n, in
\* both modes and for every threshold configuration.
C3_EmptyLine ==
    \A t \in Writing :
        minimiser_size(CurrentRecord(t).seq) = 0 =>
            tasks[t].result_string = CurrentRecord(t).id \o <<TAB, LF>>

Clamp(x, lo, hi) == IF x < lo THEN lo ELSE IF x > hi THEN hi ELSE x

\* f is the integer part of m * t.
IsFloorOfProduct(f, m, t) == f * t.den <= m * t.num /\ m * t.num < (f + 1) * t.den

\* C7: the threshold of a query with m minimisers is, in both modes,
\* floor(m * threshold) if the user set the threshold; else kmer_lemma if
\* kmers_per_window = 1; else T[clamp(m - min_minimisers, 0, max_minimisers -
\* min_minimisers)] + 2.
C7_ThresholdSelection ==
    \A t \in Writing :
        LET m == minimiser_size(CurrentRecord(t).seq)
            lo == min_number_of_minimisers(args)
            hi == max_number_of_minimisers(args)
        IN  IF args.treshold_was_set
            THEN IsFloorOfProduct(tasks[t].threshold, m, args.threshold)
            ELSE IF args.window_size - args.kmer_size + 1 = 1
            THEN tasks[t].threshold =
                    Max(0, args.pattern_size + 1 - (args.errors + 1) * args.kmer_size)
            ELSE tasks[t].threshold =
                    precomp_thresholds[Clamp(m - lo, 0, hi - lo) + 1] + 2

\* output_task has taken the table's last entry for a query with more
\* minimisers than max_minimisers.
C7_Witness ==
    \E t \in Writing :
        /\ tasks[t].kind = "output_task"
        /\ ~args.treshold_was_set
        /\ kmers_per_window(args) # 1
        /\ minimiser_size(CurrentRecord(t).seq) > max_number_of_minimisers(args)
        /\ max_number_of_minimisers(args) > min_number_of_minimisers(args)
        /\ tasks[t].threshold = precomp_thresholds[Len(precomp_thresholds)] + 2

\* C8: a line is the id, a tab, then for every bin in ascending order whose
\* count is >= the threshold its decimal id followed by a comma (also after
\* the last), then a line feed; a bin below the threshold is not listed and a
\* bin at or above it is listed exactly once.
C8_LineFormat ==
    \A t \in Writing :
        LET line == tasks[t].result_string
            body == SubSeq(line, 1, Len(line) - 1)
            id == CurrentRecord(t).id
            fields == BinFields(line)
            cnt == LineCounts(t)
        IN  /\ Len(line) >= Len(id) + 2
            /\ line[Len(line)] = LF
            /\ \A i \in 1 .. Len(body) : body[i] # LF
            /\ SubSeq(line, 1, Len(id) + 1) = id \o <<TAB>>
            /\ Remainder(AfterFirst(body, TAB), COMMA, <<>>) = <<>>
            /\ \A j \in 1 .. Len(fields) : IsDecimal(fields[j])
            /\ \A j \in 1 .. Len(fields) - 1 :
                   DecimalValue(fields[j]) < DecimalValue(fields[j + 1])
            /\ ListedBins(line) =
                   {b \in 0 .. Len(cnt) - 1 : cnt[b + 1] >= tasks[t].threshold}

\* A line lists a bin of two digits after another bin and leaves a bin out.
C8_Witness ==
    \E t \in Writing :
        /\ 10 \in ListedBins(tasks[t].result_string)
        /\ 0 \in ListedBins(tasks[t].result_string)
        /\ 2 \notin ListedBins(tasks[t].result_string)
        /\ tasks[t].threshold > 0

\* The user thresholds the monotonicity is checked over.
ThresholdGrid == {[num |-> n, den |-> 4] : n \in 0 .. 4}

\* t1 <= t2, as rationals.
Leq(t1, t2) == t1.num * t2.den <= t2.num * t1.den

\* The bins the line of a writing task would list were the user threshold thr.
HitsWith(t, thr) ==
    ListedBins(ResultString(CurrentRecord(t).id, LineCounts(t),
                            Threshold([args EXCEPT !.treshold_was_set = TRUE,
                                                   !.threshold = thr],
                                      precomp_thresholds,
                                      minimiser_size(CurrentRecord(t).seq))))

\* C9: for a fixed record (same minimisers, same counts), raising the user
\* threshold never adds a bin: the bins listed with t2 are among those listed
\* with t1 whenever t1 <= t2.
C9_ThresholdMonotone ==
    \A t \in Writing :
        args.treshold_was_set =>
            \A thr \in ThresholdGrid :
                /\ Leq(thr, args.threshold) =>
                      ListedBins(tasks[t].result_string) \subseteq HitsWith(t, thr)
                /\ Leq(args.threshold, thr) =>
                      HitsWith(t, thr) \subseteq ListedBins(tasks[t].result_string)

\* A higher user threshold would list strictly fewer bins of this line.
C9_Witness ==
    \E t \in Writing :
        /\ args.treshold_was_set
        /\ tasks[t].kind = "worker"
        /\ \E thr \in ThresholdGrid :
              /\ Leq(args.threshold, thr)
              /\ HitsWith(t, thr) # ListedBins(tasks[t].result_string)
              /\ HitsWith(t, thr) # {}


\* The complete lines of the output file, each with its line feed.
FileLinesLF == [j \in 1 .. Len(FileLines) |-> Append(FileLines[j], LF)]

\* Number of the lines task t passed to write() that are written in full.
Completed(t) ==
    IF tasks[t].pc = "lock"
          \/ (tasks[t].pc = "write" /\ tasks[t].pos < Len(tasks[t].result_string))
    THEN Len(tasks[t].sent) - 1
    ELSE Len(tasks[t].sent)

\* The lines of the file that task t passed to write(), in file order.
FileLinesOf(t) ==
    LET Mine(l) == \E j \in 1 .. Len(tasks[t].sent) : tasks[t].sent[j] = l
    IN  SelectSeq(FileLinesLF, Mine)

\* C5: with any number of threads calling sync_out::write, the file is a
\* concatenation of whole strings passed to write: every complete line is one
\* of them, what follows the last complete line is the part written so far of
\* the string of the thread inside write, and the lines of one thread stand
\* in the order in which that thread passed them.
C5_WriterAtomicity ==
    /\ \A j \in 1 .. Len(FileLinesLF) : FileLinesLF[j] \in passed
    /\ \A i, j \in 1 .. Len(FileLinesLF) : FileLinesLF[i] = FileLinesLF[j] => i = j
    /\ write_mutex = NoThread => Remainder(file, LF, <<>>) = <<>>
    /\ \A t \in DOMAIN tasks :
          write_mutex = t =>
              /\ tasks[t].pos <= Len(file)
              /\ SubSeq(file, Len(file) - tasks[t].pos + 1, Len(file))
                    = SubSeq(tasks[t].result_string, 1, tasks[t].pos)
              /\ Remainder(SubSeq(file, 1, Len(file) - tasks[t].pos), LF, <<>>) = <<>>
    /\ \A t \in DOMAIN tasks :
          FileLinesOf(t) = SubSeq(tasks[t].sent, 1, Completed(t))

\* One thread is inside write with part of its second line written, its first
\* line is in the file, and the other thread waits for the mutex with a line
\* of its own.
C5_Witness ==
    \E t, u \in DOMAIN tasks :
        /\ t # u
        /\ write_mutex = t
        /\ tasks[t].pos > 0
        /\ tasks[t].pos < Len(tasks[t].result_string)
        /\ Len(tasks[t].sent) = 2
        /\ tasks[u].pc = "lock"
        /\ FileLinesOf(t) = <<tasks[t].sent[1]>>

\* C10: in multi-part mode the accumulators of every chunk are allocated only
\* after the asynchronous load of part 0 for that chunk has completed, and
\* their width is bin_count() of the loaded part 0.
C10_AllocAfterLoad ==
    [][(pc = "m_alloc" /\ pc' = "m_wait") =>
          /\ loader = "done"
          /\ \A i \in 1 .. Len(counts') :
                Len(counts'[i]) = bin_count(IbfPartFile(index, args.parts, 0))]_vars

\* The bins at or above the threshold.
HitBins(cnt, threshold) == {b \in 0 .. Len(cnt) - 1 : cnt[b + 1] >= threshold}

\* The (id, bin) pairs of the output file.
FilePairs ==
    UNION {{<<LineId(FileLines[j]), b>> : b \in ListedBins(FileLinesLF[j])} :
              j \in 1 .. Len(FileLines)}

RECURSIVE AccumulatedOver(_, _, _)
\* The accumulator of a query after parts 0 .. p, from zero counts of the
\* width of part 0.
AccumulatedOver(seq, parts, p) ==
    Accumulate(IF p = 0 THEN ZeroCounts(bin_count(IbfPartFile(index, parts, 0)))
               ELSE AccumulatedOver(seq, parts, p - 1),
               bulk_count(IbfPartFile(index, parts, p), seq))

\* The records of the last chunk of the query file.
LastChunk ==
    IF query = <<>> THEN <<>>
    ELSE Drop(query, ((Len(query) - 1) \div ChunkSize) * ChunkSize)

\* The pairs of the run in which every thread runs to its end as soon as it
\* is started (the background load completes before the orchestrator goes on).
SequentialPairs ==
    IF args.parts = 1
    THEN UNION {{<<query[i].id, b>> :
                    b \in HitBins(bulk_count(index, query[i].seq),
                                  Threshold(args, precomp_thresholds,
                                            minimiser_size(query[i].seq)))} :
                  i \in 1 .. Len(query)}
    ELSE UNION {{<<LastChunk[i].id, b>> :
                    b \in HitBins(AccumulatedOver(LastChunk[i].seq, args.parts,
                                                  args.parts - 1),
                                  Threshold(args, precomp_thresholds,
                                            minimiser_size(LastChunk[i].seq)))} :
                  i \in 1 .. Len(LastChunk)}

\* C4: for fixed parameters, index and query file the set of (id, bin) pairs
\* of the final output is the same for every interleaving of the background
\* loader, the workers and the orchestrator, in both modes: it is the set the
\* sequential run produces.
C4_Deterministic ==
    pc = "done" => FilePairs = SequentialPairs

\* The count of bin b (from 0) summed over the parts of the index.
SumOverParts(seq, b) ==
    SumOver(0 .. args.parts - 1,
            [i \in 0 .. args.parts - 1 |->
                bulk_count(IbfPartFile(index, args.parts, i), seq)[b + 1]])

\* The bins single-part mode lists for a record over the unsplit index.
SingleHits(rec, threshold) ==
    ListedBins(ResultString(rec.id, bulk_count(index, rec.seq), threshold))

\* C6: for every record the bins multi-part mode lists are those single-part
\* mode lists for it over the unsplit index, that is the bins whose counts
\* summed over the parts reach the threshold.
C6_MultiPartEquivalence ==
    \A t \in Writing :
        tasks[t].kind = "output_task" =>
            /\ ListedBins(tasks[t].result_string)
                  = SingleHits(CurrentRecord(t), tasks[t].threshold)
            /\ ListedBins(tasks[t].result_string)
                  = {b \in 0 .. bin_count(index) - 1 :
                        SumOverParts(CurrentRecord(t).seq, b) >= tasks[t].threshold}

\* The tasks that have been started and have not completed.
Running == {t \in DOMAIN tasks : tasks[t].pc # "done"}

\* The file ibf holds when the tasks of a do_parallel start.
LoadedFile ==
    IF args.parts = 1 THEN index ELSE IbfPartFile(index, args.parts, part)

\* C11: a load and a computation never overlap on the IBF.  While the
\* background load runs no task runs; a step that writes the IBF (background
\* or load_ibf) starts from a state in which no task runs; and the tasks of a
\* do_parallel start only once the load they depend on is complete, with the
\* loaded file in ibf -- in single-part mode for every chunk.
C11_LoadComputeExclusion ==
    [][/\ loader = "running" => Running = {}
       /\ loader' = "running" => Running' = {}
       /\ ibf' # ibf => Running = {}
       /\ (Running = {} /\ Running' # {}) =>
             /\ loader' = "done"
             /\ ibf' = LoadedFile']_vars

\* The workers of the second chunk of a single-part run are running on the
\* loaded index.
C11_Witness ==
    /\ args.parts = 1
    /\ pc = "s_join"
    /\ fin > ChunkSize
    /\ Running # {}
    /\ loader = "done"
    /\ ibf = index

RECURSIVE PartsAdded(_, _, _, _)
\* An accumulator of `width` counters, zero at first, after the counts of the
\* query in parts 0 .. n - 1 were added to it, one part after the other.
PartsAdded(width, seq, parts, n) ==
    IF n = 0 THEN ZeroCounts(width)
    ELSE Accumulate(PartsAdded(width, seq, parts, n - 1),
                    bulk_count(IbfPartFile(index, parts, n - 1), seq))

\* The task whose slice holds record i has added the current part to counts[i].
Contributed(i) ==
    \E t \in DOMAIN tasks :
        /\ tasks[t].start <= i - 1
        /\ i - 1 < tasks[t].end
        /\ \/ tasks[t].counter_id > i - 1
           \/ tasks[t].counter_id = i - 1 /\ tasks[t].pc \in {"lock", "write"}

\* The state of the accumulators in the chunk loop of run_program_multiple.
PartsInOrder ==
    /\ pc = "m_wait" =>
          \A i \in 1 .. Len(counts) : counts[i] = ZeroCounts(Len(counts[i]))
    /\ pc \in {"m_join_count", "m_join_out"} =>
          /\ part \in 0 .. args.parts - 1
          /\ ibf = IbfPartFile(index, args.parts, part)
          /\ \A t \in DOMAIN tasks :
                tasks[t].kind = IF part = args.parts - 1 THEN "output_task"
                                ELSE "count_task"
          /\ Len(counts) = Len(records)
          /\ \A i \in 1 .. Len(records) :
                counts[i] = PartsAdded(Len(counts[i]), records[i].seq, args.parts,
                                       IF Contributed(i) THEN part + 1 ELSE part)
          /\ \A t \in Writing :
                tasks[t].result_string =
                    ResultString(CurrentRecord(t).id,
                                 PartsAdded(Len(counts[tasks[t].counter_id + 1]),
                                            CurrentRecord(t).seq, args.parts,
                                            args.parts),
                                 tasks[t].threshold)

\* C12: in multi-part mode (parts >= 2, parts = 2 included) the parts of a
\* chunk are loaded in the order 0, 1, .., parts - 1, each once: while the
\* tasks of part p run, ibf holds part p and every accumulator, zero when the
\* chunk starts, is the element-wise sum of one contribution of each of the
\* parts 0 .. p - 1, and of part p once its task has passed the record
\* (count_task adds parts 0 .. parts - 2, output_task adds part parts - 1);
\* a line is built from the accumulator after the contribution of the last
\* part.
C12_PartsInOrder == args.parts >= 2 => PartsInOrder

\* With two parts, output_task writes a line from an accumulator that both
\* parts have changed.
C12_Witness ==
    \E t \in Writing :
        LET i == tasks[t].counter_id + 1
            seq == CurrentRecord(t).seq
        IN  /\ args.parts = 2
            /\ tasks[t].kind = "output_task"
            /\ counts[i] # PartsAdded(Len(counts[i]), seq, 2, 1)
            /\ PartsAdded(Len(counts[i]), seq, 2, 1) # ZeroCounts(Len(counts[i]))
            /\ counts[i] = PartsAdded(Len(counts[i]), seq, 2, 2)

\* The record indices [start, end) of task t.
Slice(t) == {i \in 0 .. Len(records) - 1 : tasks[t].start <= i /\ i < tasks[t].end}

\* C13: do_parallel(task, n, threads) spawns exactly `threads` tasks; task i
\* has the range [i * floor(n / threads), (i + 1) * floor(n / threads)) for
\* i < threads - 1 and the last one [(threads - 1) * floor(n / threads), n);
\* the ranges are pairwise disjoint and their union is [0, n), also when
\* n < threads.
C13_RangesPartition ==
    tasks # <<>> =>
        LET n == Len(records)
            threads == args.threads
            per_thread == n \div threads
        IN  /\ DOMAIN tasks = 0 .. threads - 1
            /\ \A i \in 0 .. threads - 2 :
                  /\ tasks[i].start = i * per_thread
                  /\ tasks[i].end = (i + 1) * per_thread
            /\ tasks[threads - 1].start = (threads - 1) * per_thread
            /\ tasks[threads - 1].end = n
            /\ \A t \in DOMAIN tasks : tasks[t].start <= tasks[t].end
            /\ \A t, u \in DOMAIN tasks : t # u => Slice(t) \cap Slice(u) = {}
            /\ UNION {Slice(t) : t \in DOMAIN tasks} = 0 .. n - 1

\* Fewer records than threads: the first task has an empty range and has
\* completed, the last one has the chunk's only record and is writing its line.
C13_Witness ==
    /\ Len(records) = 1
    /\ args.threads = 2
    /\ DOMAIN tasks = {0, 1}
    /\ Slice(0) = {}
    /\ tasks[0].pc = "done"
    /\ Slice(1) = {0}
    /\ tasks[1].pc = "write"

\* Every string passed to write() stands in the file in full, and nothing
\* else follows the last line.
WritesComplete ==
    /\ write_mutex = NoThread
    /\ Remainder(file, LF, <<>>) = <<>>
    /\ \A line \in passed : \E j \in 1 .. Len(FileLinesLF) : FileLinesLF[j] = line

\* C14: the barrier between chunks.  do_parallel returns only after every
\* task it spawned has completed: the orchestrator takes no step while a task
\* of its do_parallel runs.  Hence every write of a worker of chunk i is
\* complete before the chunk buffer is cleared and refilled for chunk i + 1
\* and before a task of chunk i + 1 starts.
C14_ChunkBarrier ==
    [][/\ (pc' # pc \/ part' # part \/ records' # records \/ ibf' # ibf
              \/ DOMAIN tasks' # DOMAIN tasks) => Running = {}
       /\ records' # records => WritesComplete
       /\ (Running = {} /\ Running' # {}) => WritesComplete]_vars

\* Two threads have written the lines of the first chunk of a single-part
\* run; the second chunk is in the buffer and its workers have not started.
C14_Witness ==
    /\ pc = "s_wait"
    /\ args.threads = 2
    /\ fin > ChunkSize
    /\ tasks = <<>>
    /\ Len(FileLines) = ChunkSize
    /\ records = Drop(query, ChunkSize)

\* Task t is at a record of its slice, about to run the loop body on it.
AtRecord(t) == tasks[t].pc = "loop" /\ tasks[t].counter_id < tasks[t].end

\* C15: in count_task and output_task the accumulator counts[i] belongs to
\* record i and is accessed by one task only, the one whose range [start, end)
\* contains i: a task's step on a record adds that record's counts to the
\* accumulator of the same index and to no other, the index lies in the
\* task's range and in no other task's range, and two running tasks are
\* never at the same index.
C15_AccumulatorOwnership ==
    [][\A t \in DOMAIN tasks :
          (/\ tasks[t].kind \in {"count_task", "output_task"}
           /\ AtRecord(t)
           /\ DOMAIN tasks' = DOMAIN tasks
           /\ tasks'[t] # tasks[t]) =>
              LET i == tasks[t].counter_id
              IN  /\ tasks[t].start <= i
                  /\ counts'[i + 1] =
                        Accumulate(counts[i + 1], bulk_count(ibf, records[i + 1].seq))
                  /\ \A j \in 1 .. Len(counts) : j # i + 1 => counts'[j] = counts[j]
                  /\ \A u \in DOMAIN tasks \ {t} :
                        /\ ~(tasks[u].start <= i /\ i < tasks[u].end)
                        /\ AtRecord(u) => tasks[u].counter_id # i]_vars

\* Two count_tasks run side by side: one has added a non-zero contribution to
\* the accumulator of its record and completed, the other is inside its slice.
C15_Witness ==
    \E t, u \in DOMAIN tasks :
        /\ t # u
        /\ tasks[t].kind = "count_task"
        /\ tasks[t].pc = "done"
        /\ tasks[t].start < tasks[t].end
        /\ counts[tasks[t].start + 1] # ZeroCounts(Len(counts[tasks[t].start + 1]))
        /\ AtRecord(u)
        /\ tasks[u].counter_id > tasks[u].start

\* C16: the timers ibf_io_time, reads_io_time and compute_time are written
\* by the orchestrator thread only: no background loader task and no worker
\* task adds to a timer, in either mode.
C16_TimersOrchestratorOnly ==
    \A timer \in DOMAIN timer_writes : timer_writes[timer] \subseteq {Orchestrator}

\* C17: compute_simple_model.  If the user supplied a threshold it neither
\* reads the cache nor computes the table nor writes the cache; otherwise it
\* reads the cache and, exactly on a miss, computes the table with
\* precompute_threshold and writes it back; on a hit it computes and writes
\* nothing.
C17_CacheProtocol ==
    [][pc = "start" =>
          /\ model_calls' =
                IF args.treshold_was_set THEN {}
                ELSE IF cache = NoCache
                THEN {"do_cerealisation_in", "precompute_threshold",
                      "do_cerealisation_out"}
                ELSE {"do_cerealisation_in"}
          /\ cache' = IF ~args.treshold_was_set /\ cache = NoCache
                      THEN do_cerealisation_out(precompute_threshold(args))
                      ELSE cache]_vars

\* C18: for every finite query stream, threads >= 1 and parts >= 1, under fair
\* scheduling the run reaches its end and stays there: raptor_search has
\* returned, every task of every do_parallel has completed and been joined
\* (none is left waiting for the writer's mutex, which is free), and no
\* background load is still running.
C18_Termination ==
    <>[](/\ pc = "done"
         /\ tasks = <<>>
         /\ loader # "running"
         /\ write_mutex = NoThread
         /\ fin = Len(query))

\* In a multi-part run an output_task waits for the mutex while the other
\* output_task holds it and is writing the last of its lines.
C18_Witness ==
    \E t, u \in DOMAIN tasks :
        /\ args.parts >= 2
        /\ tasks[t].kind = "output_task"
        /\ tasks[t].pc = "lock"
        /\ u # t
        /\ write_mutex = u
        /\ tasks[u].pos > 0
        /\ tasks[u].counter_id = tasks[u].end - 1

\* C19: whenever a worker indexes the threshold table (treshold_was_set false
\* and kmers_per_window # 1) compute_simple_model has populated it: for every
\* combination of the fields threshold and treshold_was_set, the table being
\* left empty implies that the table is not indexed.
C19_IndexedTableIsPopulated ==
    /\ (pc # "start" /\ precomp_thresholds = <<>>) => ~TableIndexed(args)
    /\ \A t \in DOMAIN tasks :
          (tasks[t].kind \in {"worker", "output_task"} /\ AtRecord(t)) =>
              LookupInBounds(args, precomp_thresholds,
                             minimiser_size(CurrentRecord(t).seq))

\* The minimiser counts the index is computed for.
MinimiserCounts == 0 .. MaxPattern + 1

\* C20: for every parameterisation with k <= w <= p and w - k + 1 >= 2,
\* max_number_of_minimisers = p - w + 1 is at least min_number_of_minimisers
\* = ceil((p - k + 1) / (w - k + 1)), so the unsigned max - min does not wrap
\* and the table index of every minimiser count m >= 0 lies in
\* [0, max - min]; and kmer_lemma is max(0, p + 1 - (e + 1) * k), without an
\* unsigned wrap-around.
C20_NoUnsignedWrap ==
    LET k == args.kmer_size
        w == args.window_size
        p == args.pattern_size
        e == args.errors
        lo == CeilDiv(p - k + 1, w - k + 1)
        hi == p - w + 1
    IN  (k <= w /\ w <= p) =>
            /\ kmer_lemma(args) = Max(0, p + 1 - (e + 1) * k)
            /\ w - k + 1 >= 2 =>
                  /\ min_number_of_minimisers(args) = lo
                  /\ max_number_of_minimisers(args) = hi
                  /\ hi >= lo
                  /\ USub(max_number_of_minimisers(args),
                          min_number_of_minimisers(args)) = hi - lo
                  /\ \A m \in MinimiserCounts :
                        /\ ThresholdIndex(args, m) \in 0 .. hi - lo
                        /\ ThresholdIndex(args, m) = Clamp(m - lo, 0, hi - lo)

\* A worker has taken its threshold from the table for a query with fewer
\* minimisers than min_number_of_minimisers, under a parameterisation with
\* max = min and p + 1 < (e + 1) * k.
C20_Witness ==
    \E t \in Writing :
        /\ TableIndexed(args)
        /\ args.threshold = Zero
        /\ minimiser_size(CurrentRecord(t).seq) < min_number_of_minimisers(args)
        /\ max_number_of_minimisers(args) = min_number_of_minimisers(args)
        /\ args.pattern_size + 1 < (args.errors + 1) * args.kmer_size
        /\ kmer_lemma(args) = 0
        /\ tasks[t].threshold = precomp_thresholds[1] + 2

=============================================================================
